---- MODULE Spec2Model ----
(***************************************************************************)
(* Model of simulation/python/Classes.py: the PNN configuration object,    *)
(* its setter-style methods, and the two procedures mount and update that  *)
(* replay a script of calls against an INTERCONNECT session.               *)
(*                                                                         *)
(* Encoding of values.  Python floats are carried as integers in a fixed   *)
(* unit per attribute, so that every product the code forms is exact:      *)
(*   DelayUnitLen, lengths of waveguides : micrometres  (100e-6 m = 100)   *)
(*   FiberLen                            : metres                          *)
(*   attenuation, gain                   : 1e-5 dB      (0.17e-3 = 17)     *)
(*   bitrate, OptFilterBand              : GHz                             *)
(*   timeWindow                          : 1e-11 s      (5.12e-9 = 512)    *)
(*   RiseTime, FallTime                  : 1e-2                            *)
(*   NoisePSD                            : 1e-20 W/Hz                      *)
(*   PDTNoise                            : 1e-22, its square : 1e-44       *)
(*   neff, ng                            : 1e-3                            *)
(*   Theta 1                             : pi/4000      (pi/2 = 2000)      *)
(* A Python value, as an argument or in an attribute, carries its type:    *)
(* None is the empty sequence <<>>, a number n is [num |-> n], a string    *)
(* [str |-> s], a boolean [bool |-> b].  The session receives the value    *)
(* without the type.  The literal 0 the code passes for 'enable thermal    *)
(* noise' and 'enable shot noise' is carried as FALSE, and the 1 that      *)
(* True**2 gives as TRUE (0 == False, 1 == True in Python).                *)
(***************************************************************************)
EXTENDS Integers, Sequences, FiniteSets, TLC

VARIABLES
    alive,    \* TRUE when the constructor returned an instance
    attrs,    \* the attributes of the PNN instance
    sess,     \* the state of the INTERCONNECT session ("process")
    op,       \* the last operation called: its name and its arguments
    raised,   \* the exception the last operation ended with, "" for none
    ret,      \* what the last operation returned
    issued,   \* the number of session calls the last operation issued
    mounted,  \* the attributes mount last ran with, None before any mount
    ncalls    \* the number of setter calls made so far

vars == <<alive, attrs, sess, op, raised, ret, issued, mounted, ncalls>>

\* ------------------------------------------------------------------------
\* Bounds of the model
\* ------------------------------------------------------------------------

\* largest tap count drawn for the attribute taps
MaxTaps == 5

\* number of setter calls (general .. setAttributes) in one behaviour
MaxSetterCalls == 1

\* ------------------------------------------------------------------------
\* The INTERCONNECT session
\* ------------------------------------------------------------------------

None == <<>>

\* the values an attribute or an argument holds: None, or a number (in the
\* unit of its attribute), a string or a boolean under the name of its type
Num(n) == [num |-> n]
Str(t) == [str |-> t]
Bool(b) == [bool |-> b]

IsNum(v) == "num" \in DOMAIN v
IsStr(v) == "str" \in DOMAIN v
IsBool(v) == "bool" \in DOMAIN v

\* the value as the session receives it
Raw(v) ==
    IF IsNum(v) THEN v.num
    ELSE IF IsStr(v) THEN v.str
    ELSE IF IsBool(v) THEN v.bool
    ELSE None

\* an expression of the script that raised TypeError in place of a value
TypeError == [raise |-> "TypeError"]

IsRaise(v) == "raise" \in DOMAIN v

\* the operand of an arithmetic operator: a number, or a boolean, which is
\* 1 or 0 (one is the number 1 in the unit of the attribute)
Numeric(v) == IsNum(v) \/ IsBool(v)

NumOf(v, one) == IF IsBool(v) THEN (IF v.bool THEN one ELSE 0) ELSE v.num

\* str * int
RECURSIVE Repeat(_, _)
Repeat(t, n) == IF n <= 0 THEN "" ELSE t \o Repeat(t, n - 1)

\* the name INTERCONNECT gives an element of each type added without a name
Prefix(type) ==
    CASE type = "Optical Oscilloscope" -> "OOSC"
      [] type = "Oscilloscope"         -> "OSC"
      [] type = "Logic Analyzer"       -> "LGCA"
      [] type = "MZI Ideal Cell"       -> "IDEAL_CELL"
      [] type = "Termination Mirror"   -> "TERM"
      [] type = "Straight Waveguide"   -> "WGD"
      [] type = "PIN Photodetector"    -> "PIN"
      [] type = "Optical Splitter"     -> "SPLT"
      [] type = "Fork 1xN"             -> "FORK"
      [] type = "Data Delay"           -> "DLY"
      [] type = "Digital Logic"        -> "LOGIC"
      [] OTHER                         -> type

\* 'OutPIN_'+str(i)
Indexed(prefix, i) == prefix \o "_" \o ToString(i)

RootElement == "::Root Element"

Names(s) == {s.names[i] : i \in 1..Len(s.names)}

Exists(s, name) == name = RootElement \/ name \in Names(s)

IndexOf(s, name) == CHOOSE i \in 1..Len(s.names) : s.names[i] = name

\* the smallest positive index not in use for the prefix
AutoName(s, type) ==
    LET p == Prefix(type)
        k == CHOOSE k \in 1..(Len(s.names) + 1) :
                 /\ Indexed(p, k) \notin Names(s)
                 /\ \A j \in 1..(k - 1) : Indexed(p, j) \in Names(s)
    IN  Indexed(p, k)

Put(f, k, v) == [x \in (DOMAIN f) \cup {k} |-> IF x = k THEN v ELSE f[x]]

NoProps == [x \in {} |-> 0]

EmptySession ==
    [names |-> <<>>, types |-> <<>>, props |-> <<>>, sel |-> 0,
     conns |-> {}, root |-> NoProps, mode |-> "layout", failed |-> 0]

Fail(s, i) == [s EXCEPT !.failed = i]

\* the element names a call refers to
Refs(c) ==
    CASE c[1] = "setnamed"    -> {c[2]}
      [] c[1] = "select"      -> {c[2]}
      [] c[1] = "flipelement" -> {c[2]}
      [] c[1] = "connect"     -> {c[2], c[4]}
      [] c[1] = "disconnect"  -> {c[2], c[4]}
      [] OTHER                -> {}

Rename(s, new) ==
    LET old == s.names[s.sel]
        r(n) == IF n = old THEN new ELSE n
    IN  [s EXCEPT !.names[s.sel] = new,
                  !.conns = {<<r(c[1]), c[2], r(c[3]), c[4]>> : c \in s.conns}]

\* one call c, the i-th of its script, on the session s
Apply(s, c, i) ==
    IF \E n \in Refs(c) : ~Exists(s, n) THEN Fail(s, i)
    ELSE CASE c[1] = "raise" -> Fail(s, i)
      [] c[1] = "switchtolayout" -> [s EXCEPT !.mode = "layout"]
      [] c[1] = "deleteall" ->
            [s EXCEPT !.names = <<>>, !.types = <<>>, !.props = <<>>,
                      !.sel = 0, !.conns = {}]
      [] c[1] = "addelement" ->
            [s EXCEPT !.names = Append(@, AutoName(s, c[2])),
                      !.types = Append(@, c[2]),
                      !.props = Append(@, NoProps),
                      !.sel = Len(s.names) + 1]
      [] c[1] = "set" ->
            IF s.sel = 0 THEN Fail(s, i)
            ELSE IF c[2] = "name" THEN Rename(s, c[3])
            ELSE [s EXCEPT !.props[s.sel] = Put(@, c[2], c[3])]
      [] c[1] = "setnamed" ->
            IF c[2] = RootElement
            THEN [s EXCEPT !.root = Put(@, c[3], c[4])]
            ELSE [s EXCEPT !.props[IndexOf(s, c[2])] = Put(@, c[3], c[4])]
      [] c[1] = "select" -> [s EXCEPT !.sel = IndexOf(s, c[2])]
      [] c[1] = "flipelement" ->
            LET k == IndexOf(s, c[2])
                was == IF "flipped" \in DOMAIN s.props[k]
                       THEN s.props[k]["flipped"] ELSE FALSE
            IN  [s EXCEPT !.props[k] = Put(@, "flipped", ~was)]
      [] c[1] = "connect" ->
            [s EXCEPT !.conns = @ \cup {<<c[2], c[3], c[4], c[5]>>}]
      [] c[1] = "disconnect" ->
            [s EXCEPT !.conns = @ \ {<<c[2], c[3], c[4], c[5]>>}]

\* the calls lo..hi of a script in order; a call that fails raises, and the
\* calls after it are not issued
RECURSIVE RunRange(_, _, _, _)
RunRange(s, calls, lo, hi) ==
    IF s.failed # 0 \/ lo > hi THEN s
    ELSE IF lo = hi THEN Apply(s, calls[lo], lo)
    ELSE LET mid == (lo + hi) \div 2
         IN  RunRange(RunRange(s, calls, lo, mid), calls, mid + 1, hi)

Run(s, calls) == RunRange([s EXCEPT !.failed = 0], calls, 1, Len(calls))

\* how many calls of the script were issued, the failing one included; an
\* expression that raises comes before the call it is an argument of
Issued(s, calls) ==
    IF s.failed = 0 THEN Len(calls)
    ELSE IF calls[s.failed][1] = "raise" THEN s.failed - 1
    ELSE s.failed

\* ------------------------------------------------------------------------
\* The calls of the session API, as mount and update write them
\* ------------------------------------------------------------------------

switchtolayout == <<"switchtolayout">>
deleteall == <<"deleteall">>
addelement(type) == <<"addelement", type>>
set(prop, val) == <<"set", prop, val>>
setnamed(el, prop, val) == <<"setnamed", el, prop, val>>
connect(e1, p1, e2, p2) == <<"connect", e1, p1, e2, p2>>
disconnect(e1, p1, e2, p2) == <<"disconnect", e1, p1, e2, p2>>
select(el) == <<"select", el>>
flipelement(el) == <<"flipelement", el>>

\* the point of the script where the evaluation of an argument raises
raise == <<"raise", "TypeError">>

\* set and setnamed with a value computed from the attributes
Set(prop, v) == IF IsRaise(v) THEN raise ELSE set(prop, Raw(v))
SetNamed(el, prop, v) == IF IsRaise(v) THEN raise ELSE setnamed(el, prop, Raw(v))

\* addelement followed by the x and y position every element is given
At(type, x, y) ==
    <<addelement(type), set("x position", x), set("y position", y)>>


\* ------------------------------------------------------------------------
\* mount: the script of calls, section by section
\* ------------------------------------------------------------------------

\* program constants of the script
Attenuation == 17
Neff == 2445
Ng == 4190
ThetaHalfPi == 2000
ThetaSeries5 == 1335
ThetaSeries6 == 1570
MixedSpacement == 300

\* the number 1 in the unit of DelayUnitLen
Metre == 1000000

spacement_A(a) == IF a.OutputType = Str("mixed") THEN MixedSpacement ELSE 0

\* self.FiberLen*0.17e-3
FiberGain(a) ==
    IF Numeric(a.FiberLen) THEN Num(NumOf(a.FiberLen, 1) * Attenuation)
    ELSE TypeError

\* (self.PDTNoise)**2 ; True**2 is 1 and False**2 is 0
ThermalNoise(a) ==
    IF IsNum(a.PDTNoise) THEN Num(a.PDTNoise.num * a.PDTNoise.num)
    ELSE IF IsBool(a.PDTNoise) THEN a.PDTNoise
    ELSE TypeError

\* n*self.DelayUnitLen for an integer n: a string is repeated n times
Times(n, v) ==
    IF Numeric(v) THEN Num(n * NumOf(v, Metre))
    ELSE IF IsStr(v) THEN Str(Repeat(v.str, n))
    ELSE TypeError

\* self.DelayUnitLen for the first delay line, and for the k-th after it
\* (1+k*self.unitsNextTap)*self.DelayUnitLen
DelayLength(a, k) ==
    IF k = 0 THEN a.DelayUnitLen
    ELSE IF Numeric(a.unitsNextTap)
    THEN Times(1 + k * NumOf(a.unitsNextTap, 1), a.DelayUnitLen)
    ELSE TypeError

\* self.taps+1, the end of range(1,self.taps+1)
TapsEnd(a) == IF Numeric(a.taps) THEN Num(NumOf(a.taps, 1) + 1) ELSE TypeError

RootSettings(a) ==
    <<SetNamed(RootElement, "bitrate", a.bitrate),
      SetNamed(RootElement, "time window", a.timeWindow),
      SetNamed(RootElement, "number of samples", a.numofSamples)>>

\* the head of mount with its two calls in the other order
MountResetReversed == <<deleteall, switchtolayout>>

\* the head of mount without the call that empties the layout
MountResetKeeping == <<switchtolayout>>

MountReset == <<switchtolayout, deleteall>>

Transmitter(a) ==
    At("Optical Linear Fiber", -600, -200)
    \o <<Set("length", a.FiberLen), set("attenuation", Attenuation),
         set("name", "Fiber")>>
    \o <<addelement("Optical Amplifier"), set("enable noise", FALSE),
         set("x position", -450), set("y position", -200),
         Set("gain", FiberGain(a)), set("name", "fiber_AMP")>>
    \o At("Optical Attenuator", -300, -200) \o <<set("name", "VOA")>>
    \o At("Mach-Zehnder Modulator", -750, -200)
    \o <<set("modulator type", "balanced single drive"),
         Set("insertion loss", a.MZMILoss), set("name", "MZM")>>
    \o At("CW Laser", -1000, -200) \o <<set("name", "CWL")>>
    \o At("NRZ Pulse Generator", -900, -400)
    \o <<Set("amplitude", a.PulseAmp), Set("rise period", a.RiseTime),
         Set("fall period", a.FallTime), set("name", "Pulse Generator")>>
    \o At("PRBS Generator", -1250, -400)
    \o <<Set("output", a.PRBSType), set("name", "PRBS")>>

TransmitterMonitors ==
    At("Optical Oscilloscope", -400, -300)
    \o At("Optical Oscilloscope", -600, -300)
    \o At("Optical Oscilloscope", -225, -300) \o <<set("name", "VOA_OOSC")>>
    \o At("Oscilloscope", -750, -500)
    \o At("Logic Analyzer", -1100, -500)

TransmitterConnections ==
    <<connect("CWL", "output", "MZM", "input"),
      connect("MZM", "output", "Fiber", "port 1"),
      connect("Fiber", "port 2", "fiber_AMP", "input"),
      connect("fiber_AMP", "output", "VOA", "port 1"),
      connect("Pulse Generator", "output", "MZM", "modulation 1"),
      connect("PRBS", "output", "LGCA_1", "input"),
      connect("Pulse Generator", "output", "OSC_1", "input"),
      connect("MZM", "output", "OOSC_2", "input"),
      connect("Fiber", "port 2", "OOSC_1", "input"),
      connect("VOA", "port 2", "VOA_OOSC", "input")>>

BitOperator(a) ==
    IF a.ToggleBitOp = Bool(TRUE)
    THEN At("Fork 1xN", -1050, -415) \o <<set("number of ports", 3)>>
         \o At("Data Delay", -925, -575) \o <<set("delay", 1)>>
         \o At("Digital Logic", -800, -625) \o <<set("logic operator", "XOR")>>
         \o At("Logic Analyzer", -1000, -750)
         \o At("Logic Analyzer", -800, -750)
         \o At("Logic Analyzer", -650, -750)
         \o <<connect("PRBS", "output", "FORK_1", "input"),
              connect("FORK_1", "output 1", "LOGIC_1", "input 1"),
              connect("FORK_1", "output 2", "DLY_1", "input"),
              connect("FORK_1", "output 3", "Pulse Generator", "modulation"),
              connect("DLY_1", "output", "LOGIC_1", "input 2"),
              connect("FORK_1", "output 1", "LGCA_2", "input"),
              connect("DLY_1", "output", "LGCA_3", "input"),
              connect("LOGIC_1", "output", "LGCA_4", "input")>>
    ELSE <<connect("PRBS", "output", "Pulse Generator", "modulation")>>

ArmMonitors ==
    At("Optical Oscilloscope", 350, -500)
    \o At("Optical Oscilloscope", 350, -400)
    \o At("Optical Oscilloscope", 350, -200)
    \o At("Optical Oscilloscope", 350, -100)

\* an MZI cell of the parallel model
ParallelCell(a, x, y) ==
    At("MZI Ideal Cell", x, y)
    \o <<set("Waveguide neff", Neff), set("Waveguide ng", Ng),
         Set("WvgLoss", a.WvgLoss)>>

FlippedMirror(x, y, name) ==
    At("Termination Mirror", x, y) \o <<flipelement(name)>>

ParallelTree(a) ==
    ParallelCell(a, -100, -300)
    \o ParallelCell(a, 200, -400)
    \o ParallelCell(a, 200, -200)
    \o FlippedMirror(-200, -100, "TERM_1")
    \o FlippedMirror(0, -100, "TERM_2")
    \o FlippedMirror(0, -500, "TERM_3")
    \o <<connect("IDEAL_CELL_1", "port 3", "IDEAL_CELL_2", "port 2"),
         connect("IDEAL_CELL_1", "port 4", "IDEAL_CELL_3", "port 1"),
         connect("TERM_1", "port", "IDEAL_CELL_1", "port 2"),
         connect("TERM_2", "port", "IDEAL_CELL_3", "port 2"),
         connect("TERM_3", "port", "IDEAL_CELL_2", "port 1"),
         setnamed("IDEAL_CELL_1", "Theta 1", ThetaHalfPi),
         setnamed("IDEAL_CELL_2", "Theta 1", ThetaHalfPi),
         setnamed("IDEAL_CELL_3", "Theta 1", ThetaHalfPi),
         connect("VOA", "port 2", "IDEAL_CELL_1", "port 1")>>

DelayLine(a, y, k, name) ==
    At("Straight Waveguide", 500, y)
    \o <<Set("length", DelayLength(a, k)),
         set("effective index 1", Neff), set("group index 1", Ng),
         set("name", name), Set("loss 1", a.WvgLoss)>>

DelayLines(a) ==
    DelayLine(a, -450, 0, "DelayLine_1")
    \o DelayLine(a, -350, 1, "DelayLine_2")
    \o DelayLine(a, -250, 2, "DelayLine_3")
    \o DelayLine(a, -150, 3, "DelayLine_4")
    \o <<connect("IDEAL_CELL_2", "port 3", "DelayLine_1", "port 1"),
         connect("IDEAL_CELL_2", "port 4", "DelayLine_2", "port 1"),
         connect("IDEAL_CELL_3", "port 3", "DelayLine_3", "port 1"),
         connect("IDEAL_CELL_3", "port 4", "DelayLine_4", "port 1")>>

\* select a monitor and move it
MoveMonitor(name, x, y) ==
    <<select(name), set("x position", x), set("y position", y)>>

ParallelOutputCells(a) ==
    ParallelCell(a, 675, -600)
    \o ParallelCell(a, 675, -400)
    \o ParallelCell(a, 675, -200)
    \o ParallelCell(a, 675, 0)
    \o MoveMonitor("OOSC_3", 925, -600)
    \o MoveMonitor("OOSC_4", 925, -400)
    \o MoveMonitor("OOSC_5", 925, -200)
    \o MoveMonitor("OOSC_6", 925, 0)
    \o <<connect("DelayLine_1", "port 2", "IDEAL_CELL_4", "port 2"),
         connect("DelayLine_2", "port 2", "IDEAL_CELL_5", "port 2"),
         connect("DelayLine_3", "port 2", "IDEAL_CELL_6", "port 2"),
         connect("DelayLine_4", "port 2", "IDEAL_CELL_7", "port 2"),
         connect("IDEAL_CELL_4", "port 3", "OOSC_3", "input"),
         connect("IDEAL_CELL_5", "port 3", "OOSC_4", "input"),
         connect("IDEAL_CELL_6", "port 3", "OOSC_5", "input"),
         connect("IDEAL_CELL_7", "port 3", "OOSC_6", "input")>>
    \o At("Termination Mirror", 900, -525)
    \o At("Termination Mirror", 900, -325)
    \o At("Termination Mirror", 900, -125)
    \o At("Termination Mirror", 900, 75)
    \o <<connect("IDEAL_CELL_4", "port 4", "TERM_4", "port"),
         connect("IDEAL_CELL_5", "port 4", "TERM_5", "port"),
         connect("IDEAL_CELL_6", "port 4", "TERM_6", "port"),
         connect("IDEAL_CELL_7", "port 4", "TERM_7", "port")>>

\* the settings of an output photodetector
PhotodetectorSettings(a) ==
    <<Set("enable thermal noise", a.TogglePDTNoise),
      Set("enable shot noise", a.TogglePDSNoise),
      Set("responsivity", a.PDResponsivity),
      Set("dark current", a.PDDarkCurrent)>>
    \o (IF a.TogglePDTNoise = Bool(TRUE)
        THEN <<Set("thermal noise", ThermalNoise(a))>> ELSE <<>>)

\* for i in range(i, self.taps+1): one photodetector OutPIN_i
RECURSIVE DisconnectedPINs(_, _)
DisconnectedPINs(a, i) ==
    IF IsRaise(TapsEnd(a)) THEN <<raise>>
    ELSE IF i >= TapsEnd(a).num THEN <<>>
    ELSE At("PIN Photodetector", 1000, -800 + 200 * i)
         \o <<set("name", Indexed("OutPIN", i))>>
         \o PhotodetectorSettings(a)
         \o DisconnectedPINs(a, i + 1)

DisconnectedArmConnections ==
    <<connect("IDEAL_CELL_4", "port 3", "OutPIN_1", "input"),
      connect("IDEAL_CELL_5", "port 3", "OutPIN_2", "input"),
      connect("IDEAL_CELL_6", "port 3", "OutPIN_3", "input"),
      connect("IDEAL_CELL_7", "port 3", "OutPIN_4", "input")>>

DisconnectedOutput(a) ==
    DisconnectedPINs(a, 1)
    \o DisconnectedArmConnections
    \o At("Oscilloscope", 1125, -600)
    \o At("Oscilloscope", 1125, -400)
    \o At("Oscilloscope", 1125, -200)
    \o At("Oscilloscope", 1125, 0)
    \o <<connect("OutPIN_1", "output", "OSC_2", "input"),
         connect("OutPIN_2", "output", "OSC_3", "input"),
         connect("OutPIN_3", "output", "OSC_4", "input"),
         connect("OutPIN_4", "output", "OSC_5", "input")>>

CombinerArmConnections ==
    <<connect("IDEAL_CELL_4", "port 3", "SPLT_1", "input 1"),
      connect("IDEAL_CELL_5", "port 3", "SPLT_1", "input 2"),
      connect("IDEAL_CELL_6", "port 3", "SPLT_1", "input 3"),
      connect("IDEAL_CELL_7", "port 3", "SPLT_1", "input 4")>>

OpticalFilter(a) ==
    IF a.ToggleOptFilter = Bool(FALSE)
    THEN <<connect("SPLT_1", "output", "OutPIN", "input")>>
    ELSE At("Gaussian Optical Filter", 1200 + spacement_A(a), -600)
         \o <<set("name", "Optical Filter"),
              Set("bandwidth", a.OptFilterBand),
              connect("SPLT_1", "output", "Optical Filter", "input"),
              connect("Optical Filter", "output", "OutPIN", "input")>>

CombinedOutput(a) ==
    At("PIN Photodetector", 1250 + spacement_A(a), -300)
    \o <<set("name", "OutPIN")>>
    \o PhotodetectorSettings(a)
    \o At("Oscilloscope", 1400 + spacement_A(a), -300)
    \o At("Vector Signal Analyzer", 1400 + spacement_A(a), 200)
    \o <<set("name", "Output_VSA"), set("icon type", "medium"),
         set("configuration", "single input"),
         set("signal reference input", TRUE), set("symbol map", TRUE),
         set("calculate statistics", TRUE),
         set("calculate measurements", TRUE),
         connect("OutPIN", "output", "OSC_2", "input"),
         connect("OutPIN", "output", "Output_VSA", "input I"),
         connect("Pulse Generator", "output", "Output_VSA", "reference I")>>
    \o At("Optical Splitter", 1100 + spacement_A(a), -300)
    \o <<set("configuration", "combiner"), set("number of ports", 4),
         set("split ratio", "none"), flipelement("SPLT_1")>>
    \o CombinerArmConnections
    \o OpticalFilter(a)

AWGN(a) ==
    IF a.ToggleAWGN = Bool(TRUE)
    THEN At("Noise Source", 1100 + spacement_A(a), -100)
         \o <<set("name", "AWGN_source"),
              Set("power spectral density", a.NoisePSD)>>
         \o At("LP Gaussian Filter", 1300 + spacement_A(a), -100)
         \o <<set("name", "AWGN_filter")>>
         \o At("Electrical Adder", 1500 + spacement_A(a), -200)
         \o <<set("name", "Output_sum")>>
         \o At("Oscilloscope", 1600 + spacement_A(a), -250)
         \o At("Power Meter", 1600 + spacement_A(a), -350)
         \o <<set("name", "Signal_Power")>>
         \o At("Power Meter", 1600 + spacement_A(a), -100)
         \o <<set("name", "Noise_Power")>>
         \o <<connect("AWGN_source", "output", "AWGN_filter", "input"),
              connect("OutPIN", "output", "Output_sum", "input 1"),
              connect("OutPIN", "output", "Signal_Power", "input"),
              connect("AWGN_filter", "output", "Output_sum", "input 2"),
              connect("AWGN_filter", "output", "Noise_Power", "input"),
              connect("Output_sum", "output", "OSC_3", "input")>>
    ELSE <<>>

\* the mixed output without the four disconnect calls
MixedDisconnectsSkipped == <<>>

MixedDisconnects ==
    <<disconnect("IDEAL_CELL_4", "port 3", "SPLT_1", "input 1"),
      disconnect("IDEAL_CELL_5", "port 3", "SPLT_1", "input 2"),
      disconnect("IDEAL_CELL_6", "port 3", "SPLT_1", "input 3"),
      disconnect("IDEAL_CELL_7", "port 3", "SPLT_1", "input 4")>>

ArmSplitter(y, name) ==
    At("Optical Splitter", 1025, y)
    \o <<set("configuration", "splitter"), set("number of ports", 2),
         set("split ratio", "none"), set("name", name)>>

ArmPIN(y, name) ==
    At("PIN Photodetector", 1175, y)
    \o <<set("enable thermal noise", FALSE), set("enable shot noise", FALSE),
         set("name", name)>>

ArmOscilloscope(y, name) ==
    At("Oscilloscope", 1300, y) \o <<set("name", name)>>

MixedSplitterConnections ==
    <<connect("IDEAL_CELL_4", "port 3", "arm1_splt", "input"),
      connect("IDEAL_CELL_5", "port 3", "arm2_splt", "input"),
      connect("IDEAL_CELL_6", "port 3", "arm3_splt", "input"),
      connect("IDEAL_CELL_7", "port 3", "arm4_splt", "input"),
      connect("arm1_splt", "output 2", "SPLT_1", "input 1"),
      connect("arm2_splt", "output 2", "SPLT_1", "input 2"),
      connect("arm3_splt", "output 2", "SPLT_1", "input 3"),
      connect("arm4_splt", "output 2", "SPLT_1", "input 4")>>

MixedOutput ==
    MixedDisconnects
    \o ArmSplitter(-600, "arm1_splt")
    \o ArmSplitter(-400, "arm2_splt")
    \o ArmSplitter(-200, "arm3_splt")
    \o ArmSplitter(0, "arm4_splt")
    \o MixedSplitterConnections
    \o ArmPIN(-600, "arm1_pin")
    \o ArmPIN(-400, "arm2_pin")
    \o ArmPIN(-200, "arm3_pin")
    \o ArmPIN(0, "arm4_pin")
    \o ArmOscilloscope(-650, "arm1_osc")
    \o ArmOscilloscope(-450, "arm2_osc")
    \o ArmOscilloscope(-250, "arm3_osc")
    \o ArmOscilloscope(-50, "arm4_osc")
    \o <<connect("arm1_splt", "output 1", "arm1_pin", "input"),
         connect("arm2_splt", "output 1", "arm2_pin", "input"),
         connect("arm3_splt", "output 1", "arm3_pin", "input"),
         connect("arm4_splt", "output 1", "arm4_pin", "input"),
         connect("arm1_pin", "output", "arm1_osc", "input"),
         connect("arm2_pin", "output", "arm2_osc", "input"),
         connect("arm3_pin", "output", "arm3_osc", "input"),
         connect("arm4_pin", "output", "arm4_osc", "input")>>

ParallelModel(a) ==
    ParallelTree(a) \o DelayLines(a) \o ParallelOutputCells(a)
    \o (IF a.OutputType = Str("disconnected")
        THEN DisconnectedOutput(a)
        ELSE CombinedOutput(a) \o AWGN(a)
             \o (IF a.OutputType = Str("mixed") THEN MixedOutput ELSE <<>>))

SeriesWaveguide(x, y, length) ==
    At("Straight Waveguide", x, y)
    \o <<Set("length", length), set("effective index 1", Neff),
         set("group index 1", Ng)>>

SeriesCell(x, y) ==
    At("MZI Ideal Cell", x, y)
    \o <<set("Waveguide neff", Neff), set("Waveguide ng", Ng)>>

SeriesPIN(y) ==
    At("PIN Photodetector", 600, y)
    \o <<set("enable thermal noise", FALSE), set("enable shot noise", FALSE)>>

SeriesModel(a) ==
    SeriesWaveguide(-125, -500, a.DelayUnitLen)
    \o SeriesWaveguide(-50, -300, a.DelayUnitLen)
    \o SeriesWaveguide(25, -100, Times(2, a.DelayUnitLen))
    \o SeriesCell(175, -600) \o SeriesCell(175, -400)
    \o SeriesCell(175, -200) \o SeriesCell(175, 0)
    \o MoveMonitor("OOSC_3", 450, -600)
    \o MoveMonitor("OOSC_4", 450, -400)
    \o MoveMonitor("OOSC_5", 450, -200)
    \o MoveMonitor("OOSC_6", 450, 0)
    \o <<connect("IDEAL_CELL_1", "port 3", "OOSC_3", "input"),
         connect("IDEAL_CELL_2", "port 3", "OOSC_4", "input"),
         connect("IDEAL_CELL_3", "port 3", "OOSC_5", "input"),
         connect("IDEAL_CELL_4", "port 3", "OOSC_6", "input")>>
    \o SeriesCell(-375, -600) \o SeriesCell(-300, -400)
    \o SeriesCell(-225, -200)
    \o <<setnamed("IDEAL_CELL_5", "Theta 1", ThetaSeries5),
         setnamed("IDEAL_CELL_6", "Theta 1", ThetaSeries6),
         setnamed("IDEAL_CELL_7", "Theta 1", ThetaHalfPi),
         connect("VOA", "port 2", "IDEAL_CELL_5", "port 1"),
         connect("IDEAL_CELL_5", "port 4", "WGD_1", "port 1"),
         connect("IDEAL_CELL_6", "port 4", "WGD_2", "port 1"),
         connect("IDEAL_CELL_7", "port 4", "WGD_3", "port 1"),
         connect("IDEAL_CELL_5", "port 3", "IDEAL_CELL_1", "port 2"),
         connect("IDEAL_CELL_6", "port 3", "IDEAL_CELL_2", "port 2"),
         connect("IDEAL_CELL_7", "port 3", "IDEAL_CELL_3", "port 2"),
         connect("WGD_1", "port 2", "IDEAL_CELL_6", "port 1"),
         connect("WGD_2", "port 2", "IDEAL_CELL_7", "port 1"),
         connect("WGD_3", "port 2", "IDEAL_CELL_4", "port 2")>>
    \o SeriesPIN(-600) \o SeriesPIN(-400) \o SeriesPIN(-200) \o SeriesPIN(0)
    \o <<connect("IDEAL_CELL_1", "port 3", "PIN_1", "input"),
         connect("IDEAL_CELL_2", "port 3", "PIN_2", "input"),
         connect("IDEAL_CELL_3", "port 3", "PIN_3", "input"),
         connect("IDEAL_CELL_4", "port 3", "PIN_4", "input")>>
    \o At("Oscilloscope", 725, -600) \o At("Oscilloscope", 725, -400)
    \o At("Oscilloscope", 725, -200) \o At("Oscilloscope", 725, 0)
    \o <<connect("PIN_1", "output", "OSC_2", "input"),
         connect("PIN_2", "output", "OSC_3", "input"),
         connect("PIN_3", "output", "OSC_4", "input"),
         connect("PIN_4", "output", "OSC_5", "input")>>

\* every call of mount(process), in the order the code issues them
MountCalls(a) ==
    MountReset \o RootSettings(a)
    \o Transmitter(a) \o TransmitterMonitors \o TransmitterConnections
    \o BitOperator(a) \o ArmMonitors
    \o (IF a.model = Str("parallel") THEN ParallelModel(a)
        ELSE IF a.model = Str("series") THEN SeriesModel(a)
        ELSE <<>>)

\* ------------------------------------------------------------------------
\* update: the script of calls
\* ------------------------------------------------------------------------

UpdatePIN(a, name) ==
    <<SetNamed(name, "enable thermal noise", a.TogglePDTNoise),
      SetNamed(name, "enable shot noise", a.TogglePDSNoise),
      SetNamed(name, "responsivity", a.PDResponsivity),
      SetNamed(name, "dark current", a.PDDarkCurrent)>>
    \o (IF a.TogglePDTNoise = Bool(TRUE)
        THEN <<SetNamed(name, "thermal noise", ThermalNoise(a))>> ELSE <<>>)

RECURSIVE UpdateDisconnectedPINs(_, _)
UpdateDisconnectedPINs(a, i) ==
    IF IsRaise(TapsEnd(a)) THEN <<raise>>
    ELSE IF i >= TapsEnd(a).num THEN <<>>
    ELSE UpdatePIN(a, Indexed("OutPIN", i)) \o UpdateDisconnectedPINs(a, i + 1)

UpdateCalls(a) ==
    <<switchtolayout>> \o RootSettings(a)
    \o (IF a.model = Str("parallel")
        THEN <<SetNamed("DelayLine_1", "length", a.DelayUnitLen),
               SetNamed("DelayLine_2", "length", DelayLength(a, 1)),
               SetNamed("DelayLine_3", "length", DelayLength(a, 2)),
               SetNamed("DelayLine_4", "length", DelayLength(a, 3))>>
        ELSE <<>>)
    \o <<SetNamed("fiber_AMP", "gain", FiberGain(a)),
         SetNamed("Fiber", "length", a.FiberLen),
         SetNamed("Pulse Generator", "amplitude", a.PulseAmp),
         SetNamed("PRBS", "output", a.PRBSType),
         SetNamed("Pulse Generator", "rise period", a.RiseTime),
         SetNamed("Pulse Generator", "fall period", a.FallTime),
         SetNamed("MZM", "insertion loss", a.MZMILoss)>>
    \o (IF a.OutputType = Str("disconnected")
        THEN UpdateDisconnectedPINs(a, 1)
        ELSE UpdatePIN(a, "OutPIN"))
    \o (IF a.ToggleAWGN = Bool(TRUE)
        THEN <<SetNamed("AWGN_source", "power spectral density", a.NoisePSD)>>
        ELSE <<>>)
    \o (IF a.ToggleOptFilter = Bool(TRUE)
        THEN <<SetNamed("Optical Filter", "bandwidth", a.OptFilterBand)>>
        ELSE <<>>)

\* ------------------------------------------------------------------------
\* The PNN instance: attributes, constructor and setter-style methods
\* ------------------------------------------------------------------------

\* class attributes (defaults of the attributes the constructor does not set)
ClassDefaults ==
    [FiberLen |-> Num(1000), PRBSType |-> Str("PRBS"), PulseAmp |-> Num(1),
     RiseTime |-> Num(5), FallTime |-> Num(5), MZMILoss |-> Num(0),
     ToggleBitOp |-> Bool(TRUE),
     bitrate |-> Num(10), numofSamples |-> Num(8192),
     timeWindow |-> Num(512),
     OutputType |-> Str("connected"), ToggleAWGN |-> Bool(FALSE),
     NoisePSD |-> Num(2), ToggleOptFilter |-> Bool(FALSE),
     OptFilterBand |-> Num(25),
     PDResponsivity |-> Num(1), PDDarkCurrent |-> Num(0), PDTNoise |-> Num(1),
     TogglePDTNoise |-> Bool(FALSE), TogglePDSNoise |-> Bool(FALSE)]

\* the attributes of an instance the constructor returned
Instance(model, taps, DelayUnitLen, unitsNextTap, WvgLoss) ==
    [k \in DOMAIN ClassDefaults
           \cup {"model", "taps", "DelayUnitLen", "unitsNextTap", "WvgLoss"} |->
        CASE k = "model"        -> model
          [] k = "taps"         -> taps
          [] k = "DelayUnitLen" -> DelayUnitLen
          [] k = "unitsNextTap" -> unitsNextTap
          [] k = "WvgLoss"      -> WvgLoss
          [] OTHER              -> ClassDefaults[k]]

\* model not in [None,'parallel','series']
BadModel(model) == model \notin {None, Str("parallel"), Str("series")}

\* OutputType not in [None,'connected','disconnected','mixed']
BadOutputType(OutputType) ==
    OutputType \notin
        {None, Str("connected"), Str("disconnected"), Str("mixed")}

\* if x is not None: self.attr = x
Supplied(old, arg) == IF arg # None THEN arg ELSE old

\* the state every method of the instance leaves alone
Call(name, args, exception) ==
    /\ alive
    /\ op' = [name |-> name, args |-> args]
    /\ raised' = exception
    /\ UNCHANGED alive

SetterCall(name, args, exception) ==
    /\ ncalls < MaxSetterCalls
    /\ Call(name, args, exception)
    /\ ncalls' = ncalls + 1
    /\ issued' = 0
    /\ ret' = None
    /\ UNCHANGED <<sess, mounted>>

\* self.<name> finds an instance attribute before the method of the class:
\* once setattr stored a number or a string under the name of a method, the
\* call of that method raises TypeError and does nothing
Shadowed(name) == name \in DOMAIN attrs

\* the call of a shadowed setter
SetterNotCallable(name, args) ==
    /\ SetterCall(name, args, "TypeError")
    /\ UNCHANGED attrs

\* the call of a shadowed method that is no setter
NotCallable(name, args) ==
    /\ Call(name, args, "TypeError")
    /\ ret' = None
    /\ issued' = 0
    /\ UNCHANGED <<attrs, sess, mounted, ncalls>>

__init__(model, taps, DelayUnitLen, unitsNextTap, WvgLoss) ==
    /\ op = [name |-> "__init__",
             args |-> <<model, taps, DelayUnitLen, unitsNextTap, WvgLoss>>]
    /\ IF BadModel(model)
       THEN /\ alive = FALSE
            /\ raised = "NameError"
            /\ attrs = ClassDefaults
       ELSE /\ alive = TRUE
            /\ raised = ""
            /\ attrs = Instance(model, taps, DelayUnitLen, unitsNextTap, WvgLoss)
    /\ ret = None
    /\ issued = 0
    /\ mounted = None
    /\ ncalls = 0

general(model, taps, DelayUnitLen, unitsNextTap, WvgLoss) ==
    LET args == <<model, taps, DelayUnitLen, unitsNextTap, WvgLoss>>
    IN  IF Shadowed("general") THEN SetterNotCallable("general", args)
        ELSE IF BadModel(model)
        THEN /\ SetterCall("general", args, "NameError")
             /\ UNCHANGED attrs
        ELSE /\ SetterCall("general", args, "")
             /\ attrs' = [attrs EXCEPT
                    !.model = Supplied(@, model),
                    !.taps = Supplied(@, taps),
                    !.DelayUnitLen = Supplied(@, DelayUnitLen),
                    !.unitsNextTap = Supplied(@, unitsNextTap),
                    !.WvgLoss = Supplied(@, WvgLoss)]

transmission(FiberLen, PRBSType, PulseAmp, RiseTime, FallTime, MZMILoss, ToggleBitOp) ==
    LET args == <<FiberLen, PRBSType, PulseAmp, RiseTime, FallTime, MZMILoss,
                  ToggleBitOp>>
    IN  IF Shadowed("transmission")
        THEN SetterNotCallable("transmission", args)
        ELSE /\ SetterCall("transmission", args, "")
             /\ attrs' = [attrs EXCEPT
                    !.FiberLen = Supplied(@, FiberLen),
                    !.PRBSType = Supplied(@, PRBSType),
                    !.PulseAmp = Supplied(@, PulseAmp),
                    !.RiseTime = Supplied(@, RiseTime),
                    !.FallTime = Supplied(@, FallTime),
                    !.MZMILoss = Supplied(@, MZMILoss),
                    !.ToggleBitOp = Supplied(@, ToggleBitOp)]

\* simulation with a slip in one assignment: numofSamples is written to
\* timeWindow
simulationSwapped(bitrate, numofSamples, timeWindow) ==
    LET args == <<bitrate, numofSamples, timeWindow>>
    IN  IF Shadowed("simulation") THEN SetterNotCallable("simulation", args)
        ELSE /\ SetterCall("simulation", args, "")
             /\ attrs' = [attrs EXCEPT
                    !.bitrate = Supplied(@, bitrate),
                    !.timeWindow =
                        Supplied(Supplied(@, timeWindow), numofSamples)]

simulation(bitrate, numofSamples, timeWindow) ==
    LET args == <<bitrate, numofSamples, timeWindow>>
    IN  IF Shadowed("simulation") THEN SetterNotCallable("simulation", args)
        ELSE /\ SetterCall("simulation", args, "")
             /\ attrs' = [attrs EXCEPT
                    !.bitrate = Supplied(@, bitrate),
                    !.numofSamples = Supplied(@, numofSamples),
                    !.timeWindow = Supplied(@, timeWindow)]

output(OutputType, ToggleAWGN, NoisePSD, ToggleOptFilter, OptFilterBand) ==
    LET args == <<OutputType, ToggleAWGN, NoisePSD, ToggleOptFilter,
                  OptFilterBand>>
    IN  IF Shadowed("output") THEN SetterNotCallable("output", args)
        ELSE IF BadOutputType(OutputType)
        THEN /\ SetterCall("output", args, "NameError")
             /\ UNCHANGED attrs
        ELSE /\ SetterCall("output", args, "")
             /\ attrs' = [attrs EXCEPT
                    !.OutputType = Supplied(@, OutputType),
                    !.ToggleAWGN = Supplied(@, ToggleAWGN),
                    !.NoisePSD = Supplied(@, NoisePSD),
                    !.ToggleOptFilter = Supplied(@, ToggleOptFilter),
                    !.OptFilterBand = Supplied(@, OptFilterBand)]

photoreceptor(PDResponsivity, PDDarkCurrent, PDTNoise, TogglePDTNoise, TogglePDSNoise) ==
    LET args == <<PDResponsivity, PDDarkCurrent, PDTNoise, TogglePDTNoise,
                  TogglePDSNoise>>
    IN  IF Shadowed("photoreceptor")
        THEN SetterNotCallable("photoreceptor", args)
        ELSE /\ SetterCall("photoreceptor", args, "")
             /\ attrs' = [attrs EXCEPT
                    !.PDResponsivity = Supplied(@, PDResponsivity),
                    !.PDDarkCurrent = Supplied(@, PDDarkCurrent),
                    !.PDTNoise = Supplied(@, PDTNoise),
                    !.TogglePDTNoise = Supplied(@, TogglePDTNoise),
                    !.TogglePDSNoise = Supplied(@, TogglePDSNoise)]

\* the exception setattr(self, key, value) raises for a value that is a number,
\* a string or None: __class__ takes only a class, __dict__ only a
\* dictionary, __weakref__ is not writable; "" where the value is stored
SetattrException(key) ==
    CASE key \in {"__class__", "__dict__"} -> "TypeError"
      [] key = "__weakref__"               -> "AttributeError"
      [] OTHER                             -> ""

\* the items of kwargs that setattr has stored when the loop ends: all of
\* them, or those before the first one it raises for
StoredItems(kwargs) ==
    LET bad == {i \in 1..Len(kwargs) : SetattrException(kwargs[i][1]) # ""}
    IN  IF bad = {} THEN Len(kwargs)
        ELSE (CHOOSE i \in bad : \A j \in bad : i <= j) - 1

\* for key, value in kwargs.items(): setattr(self,key,value)
\* kwargs is the sequence of its <<key, value>> items; the keyword self
\* collides with the first parameter and the call raises before its body
setAttributes(kwargs) ==
    IF Shadowed("setAttributes")
    THEN SetterNotCallable("setAttributes", kwargs)
    ELSE IF \E i \in 1..Len(kwargs) : kwargs[i][1] = "self"
    THEN /\ SetterCall("setAttributes", kwargs, "TypeError")
         /\ UNCHANGED attrs
    ELSE LET n == StoredItems(kwargs)
             keys == {kwargs[i][1] : i \in 1..n}
             value(k) == kwargs[CHOOSE i \in 1..n : kwargs[i][1] = k][2]
         IN  /\ SetterCall("setAttributes", kwargs,
                           IF n < Len(kwargs)
                           THEN SetattrException(kwargs[n + 1][1]) ELSE "")
             /\ attrs' = [k \in DOMAIN attrs \cup keys |->
                             IF k \in keys THEN value(k) ELSE attrs[k]]

\* the methods the class defines
Methods ==
    {"__init__", "general", "transmission", "simulation", "output",
     "photoreceptor", "showParameters", "setAttributes", "getAttributes",
     "update", "mount"}

\* the names every object has besides its data attributes and its methods
InheritedNames ==
    {"__class__", "__delattr__", "__dict__", "__dir__", "__doc__", "__eq__",
     "__format__", "__ge__", "__getattribute__", "__getstate__", "__gt__",
     "__hash__", "__init_subclass__", "__le__", "__lt__", "__module__",
     "__ne__", "__new__", "__reduce__", "__reduce_ex__", "__repr__",
     "__setattr__", "__sizeof__", "__str__", "__subclasshook__",
     "__weakref__"}

\* getattr(self, name, None): the value of a data attribute of the instance
\* or the class (None where it holds None), else the method bound to the
\* instance, else what every object has under the name, else None
getattr(a, name) ==
    IF name \in DOMAIN a THEN a[name]
    ELSE IF name \in Methods THEN [method |-> name]
    ELSE IF name = "__weakref__" THEN None
    ELSE IF name \in InheritedNames THEN [object |-> name]
    ELSE None

\* tuple(getattr(self, attr, None) for attr in kwargs)
getAttributes(names) ==
    IF Shadowed("getAttributes") THEN NotCallable("getAttributes", names)
    ELSE /\ Call("getAttributes", names, "")
         /\ ret' = [i \in 1..Len(names) |-> getattr(attrs, names[i])]
         /\ issued' = 0
         /\ UNCHANGED <<attrs, sess, mounted, ncalls>>

\* the attributes showParameters multiplies by a float before it prints
\* them: a string or None there raises TypeError
Scaled == {"DelayUnitLen", "FiberLen", "bitrate", "OptFilterBand"}

showParameters ==
    IF Shadowed("showParameters") THEN NotCallable("showParameters", <<>>)
    ELSE /\ Call("showParameters", <<>>,
                 IF \A k \in Scaled : Numeric(attrs[k]) THEN ""
                 ELSE "TypeError")
         /\ ret' = None
         /\ issued' = 0
         /\ UNCHANGED <<attrs, sess, mounted, ncalls>>

\* what a method that talks to the session ends with: it raises where the
\* evaluation of an argument raises or a session call fails
Outcome(after, calls) ==
    IF after.failed = 0 THEN ""
    ELSE IF calls[after.failed][1] = "raise" THEN "TypeError"
    ELSE "LumApiError"

\* mount that stores what it builds: the circuit has four arms, and taps is
\* set to 4
mountStoring ==
    /\ alive
    /\ IF Shadowed("mount") THEN NotCallable("mount", <<>>)
       ELSE \E calls \in {MountCalls(attrs)} :
             \E after \in {Run(sess, calls)} :
               /\ Call("mount", <<>>, Outcome(after, calls))
               /\ sess' = after
               /\ issued' = Issued(after, calls)
               /\ ret' = None
               /\ mounted' = <<attrs>>
               /\ attrs' = [attrs EXCEPT !.taps = Num(4)]
               /\ UNCHANGED ncalls

mount ==
    /\ alive
    /\ IF Shadowed("mount") THEN NotCallable("mount", <<>>)
       ELSE \E calls \in {MountCalls(attrs)} :
             \E after \in {Run(sess, calls)} :
               /\ Call("mount", <<>>, Outcome(after, calls))
               /\ sess' = after
               /\ issued' = Issued(after, calls)
               /\ ret' = None
               /\ mounted' = <<attrs>>
               /\ UNCHANGED <<attrs, ncalls>>

update ==
    /\ alive
    /\ IF Shadowed("update") THEN NotCallable("update", <<>>)
       ELSE \E calls \in {UpdateCalls(attrs)} :
             \E after \in {Run(sess, calls)} :
               /\ Call("update", <<>>, Outcome(after, calls))
               /\ sess' = after
               /\ issued' = Issued(after, calls)
               /\ ret' = None
               /\ UNCHANGED <<attrs, mounted, ncalls>>

\* ------------------------------------------------------------------------
\* Inputs
\* ------------------------------------------------------------------------

\* taps as given to the constructor: the default and the largest
TapsArgs == {4, MaxTaps}

\* 'ring' and 'star' stand for every string that names no variant
ModelArgs == {None, Str("parallel"), Str("series"), Str("ring")}

\* model, taps, DelayUnitLen, unitsNextTap, WvgLoss; no setter tests the type
\* of a value, and 'ab' stands for every string given as a length
GeneralArgs ==
    {<<Str("series"), None, None, None, None>>,
     <<Str("parallel"), None, None, Num(2), Num(3)>>,
     <<Str("ring"), Num(2), Num(200), None, None>>,
     <<None, Num(2), Num(200), None, None>>,
     <<None, None, None, Num(2), Num(3)>>,
     <<None, None, Str("ab"), None, None>>,
     <<None, None, None, None, None>>}

\* FiberLen, PRBSType, PulseAmp, RiseTime, FallTime, MZMILoss, ToggleBitOp
TransmissionArgs ==
    {<<Num(2000), Str("ones"), None, None, None, None, None>>,
     <<None, None, Num(2), Num(10), Num(20), Num(1), None>>,
     <<None, None, None, None, None, None, Bool(FALSE)>>}

\* bitrate, numofSamples, timeWindow
SimulationArgs ==
    {<<Num(25), None, None>>, <<None, Num(4096), Num(256)>>}

\* OutputType, ToggleAWGN, NoisePSD, ToggleOptFilter, OptFilterBand
OutputArgs ==
    {<<Str("disconnected"), None, None, None, None>>,
     <<Str("mixed"), Bool(TRUE), Num(4), Bool(TRUE), Num(50)>>,
     <<Str("star"), Bool(TRUE), Num(4), Bool(TRUE), Num(50)>>,
     <<None, Bool(TRUE), Num(4), None, None>>,
     <<None, None, None, Bool(TRUE), Num(50)>>}

\* PDResponsivity, PDDarkCurrent, PDTNoise, TogglePDTNoise, TogglePDSNoise
PhotoreceptorArgs ==
    {<<Num(2), Num(1), None, None, None>>,
     <<None, None, Num(3), Bool(TRUE), Bool(TRUE)>>}

\* the items of **kwargs in the order they are given. 'gain' is a name the
\* instance does not have before the call, __class__ a name setattr raises
\* for, mount and showParameters names of methods; setattr stores None as
\* any other value
KwargsArgs ==
    {<<<<"WvgLoss", Num(3)>>, <<"gain", Num(5)>>>>,
     <<<<"OutputType", Str("star")>>, <<"taps", Num(2)>>>>,
     <<<<"model", Str("ring")>>>>,
     <<<<"taps", Num(2)>>, <<"__class__", Num(5)>>, <<"WvgLoss", Num(3)>>>>,
     <<<<"mount", Num(5)>>, <<"showParameters", Num(5)>>>>,
     <<<<"FiberLen", None>>>>}

\* two attributes, a name that is an attribute only once it was set, a
\* method, a name that nothing has and an attribute that can hold None
NamesArgs == {<<"model", "OutputType", "gain", "mount", "loss", "FiberLen">>}

\* a session that an earlier script left behind
DirtySession ==
    Run(EmptySession,
        <<addelement("Optical Oscilloscope"),
          addelement("PIN Photodetector"), set("name", "OutPIN"),
          connect("OutPIN", "output", "OOSC_1", "input")>>)

\* the configurations of an instance that mount and update are run with
Configurations ==
    {[Instance(Str(m), Num(t), Num(100), Num(1), Num(0)) EXCEPT
         !.OutputType = Str(o), !.ToggleBitOp = Bool(b),
         !.ToggleAWGN = Bool(g), !.ToggleOptFilter = Bool(f),
         !.TogglePDTNoise = Bool(n)] :
       m \in {"parallel", "series"}, t \in 1..MaxTaps,
       o \in {"connected", "disconnected", "mixed"},
       b \in BOOLEAN, g \in BOOLEAN, f \in BOOLEAN, n \in BOOLEAN}

\* ------------------------------------------------------------------------
\* Specifications
\* ------------------------------------------------------------------------

\* the life of one instance: PNN(model, taps), then any calls of its methods
Init ==
    /\ \E model \in ModelArgs, taps \in TapsArgs :
           __init__(model, Num(taps), Num(100), Num(1), Num(0))
    /\ sess = EmptySession

Next ==
    \/ \E g \in GeneralArgs : general(g[1], g[2], g[3], g[4], g[5])
    \/ \E t \in TransmissionArgs :
           transmission(t[1], t[2], t[3], t[4], t[5], t[6], t[7])
    \/ \E m \in SimulationArgs : simulation(m[1], m[2], m[3])
    \/ \E o \in OutputArgs : output(o[1], o[2], o[3], o[4], o[5])
    \/ \E r \in PhotoreceptorArgs :
           photoreceptor(r[1], r[2], r[3], r[4], r[5])
    \/ \E kwargs \in KwargsArgs : setAttributes(kwargs)
    \/ \E names \in NamesArgs : getAttributes(names)
    \/ showParameters
    \/ mount
    \/ update

Spec == Init /\ [][Next]_vars

\* mount and update on an instance in any configuration, against a session
\* that is empty or was used before
InitMount ==
    /\ alive = TRUE
    /\ attrs \in Configurations
    /\ sess \in {EmptySession, DirtySession}
    /\ op = [name |-> "configured", args |-> <<>>]
    /\ raised = ""
    /\ ret = None
    /\ issued = 0
    /\ mounted = None
    /\ ncalls = 0

NextMount == mount \/ update

SpecMount == InitMount /\ [][NextMount]_vars

\* ------------------------------------------------------------------------
\* Properties
\* ------------------------------------------------------------------------

Models == {Str("parallel"), Str("series")}

OutputTypes == {Str("connected"), Str("disconnected"), Str("mixed")}

\* mount was called and ran: it issued calls (it was not shadowed by an
\* attribute)
AfterMount == alive /\ op.name = "mount" /\ issued > 0

AfterUpdate == alive /\ op.name = "update" /\ issued > 0

\* C2: in every reachable state of an instance the attribute model is
\* 'parallel' or 'series' and the attribute OutputType is 'connected',
\* 'disconnected' or 'mixed'.
C2_SelectorsAreVariants ==
    alive => attrs.model \in Models /\ attrs.OutputType \in OutputTypes

\* C3: the constructor raises NameError exactly when model is neither
\* 'parallel' nor 'series'; general raises it exactly when model is supplied
\* and is neither; output raises it exactly when OutputType is supplied and
\* is none of 'connected', 'disconnected', 'mixed'.
C3_EnumeratedValidation ==
    /\ op.name = "__init__" =>
          ((raised = "NameError") <=>
              op.args[1] \notin {Str("parallel"), Str("series")})
    /\ op.name = "general" =>
          ((raised = "NameError") <=>
              op.args[1] \notin {None, Str("parallel"), Str("series")})
    /\ op.name = "output" =>
          ((raised = "NameError") <=>
              op.args[1] \notin {None, Str("connected"),
                                 Str("disconnected"), Str("mixed")})

\* the element names update passes to setnamed
UpdateNames(a) ==
    UNION {Refs(UpdateCalls(a)[i]) : i \in 1..Len(UpdateCalls(a))}

\* C4: every element name that update passes to setnamed names an element of
\* the session that mount left with the same configuration.
C4_UpdateNamesExist ==
    (AfterMount /\ attrs.model \in Models) =>
        \A n \in UpdateNames(attrs) : Exists(sess, n)

\* C5: no call of mount names an element that the session does not hold at
\* the moment of the call.
C5_MountCallsValid ==
    (AfterMount /\ attrs.model \in Models) => sess.failed = 0

\* ------------------------------------------------------------------------
\* Reading a circuit
\* ------------------------------------------------------------------------

TypeOf(s, n) == s.types[IndexOf(s, n)]

PropsOf(s, n) == s.props[IndexOf(s, n)]

ElementsOfType(s, t) == {s.names[i] : i \in {j \in 1..Len(s.names) : s.types[j] = t}}

\* the property p of the element n has the value v (the values of a
\* property can be of different types, which their texts tell apart)
Has(s, n, p, v) ==
    /\ n \in Names(s)
    /\ p \in DOMAIN PropsOf(s, n)
    /\ ToString(PropsOf(s, n)[p]) = ToString(v)

PINs(s) == ElementsOfType(s, "PIN Photodetector")

\* the MZI cells whose port 3 is watched by an optical oscilloscope: the
\* output cell of each arm
OutputArms(s) ==
    {e \in ElementsOfType(s, "MZI Ideal Cell") :
        \E c \in s.conns : /\ c[1] = e
                           /\ c[2] = "port 3"
                           /\ TypeOf(s, c[3]) = "Optical Oscilloscope"}

MonitorsOfArms(s) ==
    {c[3] : c \in {d \in s.conns : /\ d[1] \in OutputArms(s)
                                   /\ d[2] = "port 3"
                                   /\ TypeOf(s, d[3]) = "Optical Oscilloscope"}}

\* the output of the combiner reaches the photodetector, directly or through
\* the optical filter
Feeds(s, comb, pd) ==
    \/ <<comb, "output", pd, "input">> \in s.conns
    \/ \E f \in ElementsOfType(s, "Gaussian Optical Filter") :
          /\ <<comb, "output", f, "input">> \in s.conns
          /\ <<f, "output", pd, "input">> \in s.conns

\* the session a mount with the attributes a builds from nothing
FreshMount(a) == Run(EmptySession, MountCalls(a))

\* the attributes that decide which elements mount adds
Structure(a) ==
    <<a.model, a.taps, a.OutputType, a.ToggleBitOp, a.ToggleAWGN,
      a.ToggleOptFilter>>

\* every property that the session f holds has the same value in s
SameSettings(s, f) ==
    /\ \A p \in DOMAIN f.root : p \in DOMAIN s.root /\ ToString(s.root[p]) = ToString(f.root[p])
    /\ \A i \in 1..Len(f.names) :
          \A p \in DOMAIN f.props[i] : Has(s, f.names[i], p, f.props[i][p])

\* the attributes are a configuration: each holds a value of the type the
\* class gives it (a number, a string or a boolean, where the default is one)
Configured(a) == \A k \in DOMAIN ClassDefaults : DOMAIN a[k] = DOMAIN ClassDefaults[k]

\* C6: for configurations, after mount, a change of attributes that keeps
\* model, taps, OutputType, ToggleBitOp, ToggleAWGN and ToggleOptFilter, and
\* update, every property that a fresh mount with the new attributes sets has
\* that value.
C6_UpdateMatchesFreshMount ==
    (/\ AfterUpdate
     /\ mounted # None
     /\ Configured(mounted[1])
     /\ Configured(attrs)
     /\ Structure(mounted[1]) = Structure(attrs)) =>
        SameSettings(sess, FreshMount(attrs))

\* C7: with OutputType 'connected', in either model, every output arm is
\* connected to one combiner, the combiner feeds one photodetector, and that
\* is the only PIN photodetector of the circuit.
C7_ConnectedOutput ==
    (AfterMount /\ attrs.model \in Models /\ attrs.OutputType = Str("connected")) =>
        \E comb \in ElementsOfType(sess, "Optical Splitter"), pd \in PINs(sess) :
            /\ PINs(sess) = {pd}
            /\ Has(sess, comb, "configuration", "combiner")
            /\ OutputArms(sess) # {}
            /\ \A e \in OutputArms(sess) :
                  \E c \in sess.conns :
                      c[1] = e /\ c[2] = "port 3" /\ c[3] = comb
            /\ Feeds(sess, comb, pd)

\* C8: in the parallel model with OutputType 'disconnected' the photodetectors
\* are exactly OutPIN_1..OutPIN_taps, each has its input on port 3 of an arm
\* of its own and its output on an oscilloscope of its own, and there is no
\* combiner and no shared photodetector.
C8_DisconnectedOutput ==
    (AfterMount /\ attrs.model = Str("parallel")
                /\ attrs.OutputType = Str("disconnected")) =>
        LET pin(i) == Indexed("OutPIN", i)
            T == 1..attrs.taps.num
        IN  /\ PINs(sess) = {pin(i) : i \in T}
            /\ \A i \in T :
                  \E e \in OutputArms(sess) :
                      /\ <<e, "port 3", pin(i), "input">> \in sess.conns
                      /\ \A j \in T \ {i} :
                            <<e, "port 3", pin(j), "input">> \notin sess.conns
            /\ \A i \in T :
                  \E o \in ElementsOfType(sess, "Oscilloscope") :
                      /\ <<pin(i), "output", o, "input">> \in sess.conns
                      /\ \A j \in T \ {i} :
                            <<pin(j), "output", o, "input">> \notin sess.conns
            /\ ElementsOfType(sess, "Optical Splitter") = {}
            /\ "OutPIN" \notin Names(sess)

\* C9: in the parallel model with OutputType 'mixed', when mount ends, port 3
\* of IDEAL_CELL_4..7 feeds the 2-port splitter arm<k>_splt, whose output 1
\* feeds the photodetector arm<k>_pin and whose output 2 feeds input k of the
\* combiner SPLT_1, which leads to the photodetector OutPIN; no arm output
\* is connected to SPLT_1 directly.
C9_MixedOutput ==
    (AfterMount /\ attrs.model = Str("parallel") /\ attrs.OutputType = Str("mixed")) =>
        /\ sess.failed = 0
        /\ \A k \in 1..4 :
              LET cell == Indexed("IDEAL_CELL", k + 3)
                  splt == "arm" \o ToString(k) \o "_splt"
                  pin == "arm" \o ToString(k) \o "_pin"
              IN  /\ <<cell, "port 3", splt, "input">> \in sess.conns
                  /\ splt \in ElementsOfType(sess, "Optical Splitter")
                  /\ Has(sess, splt, "configuration", "splitter")
                  /\ Has(sess, splt, "number of ports", 2)
                  /\ pin \in PINs(sess)
                  /\ <<splt, "output 1", pin, "input">> \in sess.conns
                  /\ <<splt, "output 2", "SPLT_1", "input " \o ToString(k)>>
                        \in sess.conns
                  /\ \A c \in sess.conns :
                        ~(c[1] = cell /\ c[2] = "port 3" /\ c[3] = "SPLT_1")
        /\ Has(sess, "SPLT_1", "configuration", "combiner")
        /\ "OutPIN" \in PINs(sess)
        /\ Feeds(sess, "SPLT_1", "OutPIN")

\* a mount of the parallel model with mixed output has ended, with the optical
\* filter in place
C9_Witness ==
    /\ AfterMount
    /\ raised = ""
    /\ attrs.model = Str("parallel")
    /\ attrs.OutputType = Str("mixed")
    /\ attrs.ToggleOptFilter = Bool(TRUE)
    /\ "arm4_splt" \in Names(sess)

\* C10: in either model the circuit that mount leaves has exactly taps output
\* arms: taps output MZI cells, each with an output monitor of its own.
C10_TapsOutputArms ==
    (AfterMount /\ attrs.model \in Models) =>
        /\ Num(Cardinality(OutputArms(sess))) = attrs.taps
        /\ Num(Cardinality(MonitorsOfArms(sess))) = attrs.taps

\* C11: ToggleBitOp defaults to false: on an instance that no setter was ever
\* called on, mount adds no Fork 1xN, Data Delay or Digital Logic element and
\* connects the PRBS output to the modulation input of the Pulse Generator.
C11_BitOpDefaultsOff ==
    (AfterMount /\ ncalls = 0 /\ attrs.model \in Models) =>
        /\ ElementsOfType(sess, "Fork 1xN") = {}
        /\ ElementsOfType(sess, "Data Delay") = {}
        /\ ElementsOfType(sess, "Digital Logic") = {}
        /\ <<"PRBS", "output", "Pulse Generator", "modulation">> \in sess.conns

\* the attributes of each domain, in the order of the setter's arguments
DomainOf(setter) ==
    CASE setter = "general" ->
            <<"model", "taps", "DelayUnitLen", "unitsNextTap", "WvgLoss">>
      [] setter = "transmission" ->
            <<"FiberLen", "PRBSType", "PulseAmp", "RiseTime", "FallTime",
              "MZMILoss", "ToggleBitOp">>
      [] setter = "simulation" -> <<"bitrate", "numofSamples", "timeWindow">>
      [] setter = "output" ->
            <<"OutputType", "ToggleAWGN", "NoisePSD", "ToggleOptFilter",
              "OptFilterBand">>
      [] setter = "photoreceptor" ->
            <<"PDResponsivity", "PDDarkCurrent", "PDTNoise", "TogglePDTNoise",
              "TogglePDSNoise">>

DomainSetters ==
    {"general", "transmission", "simulation", "output", "photoreceptor"}

\* a call of the setter that returned without raising: the step from the
\* state before it to the state after it
SetterStep(setter) ==
    op'.name = setter /\ ncalls' = ncalls + 1 /\ raised' = ""

\* C12: a successful call of general, transmission, simulation, output or
\* photoreceptor leaves every attribute outside its own domain as it was;
\* inside the domain, an attribute whose argument is supplied takes the
\* supplied value and one whose argument is omitted keeps its value.
C12_SetterFrame ==
    [][\A setter \in DomainSetters :
          SetterStep(setter) =>
            LET d == DomainOf(setter)
                own == {d[i] : i \in 1..Len(d)}
            IN  /\ DOMAIN attrs' = DOMAIN attrs
                /\ \A k \in DOMAIN attrs \ own : attrs'[k] = attrs[k]
                /\ \A i \in 1..Len(d) :
                      attrs'[d[i]] = IF op'.args[i] = None THEN attrs[d[i]]
                                     ELSE op'.args[i]]_vars

\* simulation was called with numofSamples and timeWindow supplied and
\* bitrate omitted, and has stored the two
C12_Witness ==
    /\ alive
    /\ op.name = "simulation"
    /\ raised = ""
    /\ op.args = <<None, Num(4096), Num(256)>>
    /\ attrs.numofSamples = Num(4096)
    /\ attrs.timeWindow = Num(256)
    /\ attrs.bitrate = ClassDefaults.bitrate

\* the methods that read the configuration
Readers == {"mount", "update", "getAttributes", "showParameters"}

\* a call of one of the readers: the step from the state before it to the
\* state after it (every setter counts its call in ncalls)
ReaderStep == op'.name \in Readers /\ ncalls' = ncalls

\* C13: mount, update, getAttributes and showParameters leave every attribute
\* of the instance as it was, whether they return or raise.
C13_ReadersKeepAttributes ==
    [][ReaderStep => attrs' = attrs]_vars

\* mount has run on an instance whose FiberLen a setter had set to None: it
\* issued calls, raised TypeError where it multiplies FiberLen, and the
\* attributes are the ones the setter left
C13_Witness ==
    /\ alive
    /\ op.name = "mount"
    /\ issued > 0
    /\ raised = "TypeError"
    /\ ncalls = 1
    /\ attrs.FiberLen = None
    /\ attrs.taps \in {Num(t) : t \in TapsArgs}
    /\ mounted = <<attrs>>

\* the calls that build or change the circuit
BuildCalls ==
    {"addelement", "set", "setnamed", "connect", "disconnect", "select",
     "flipelement"}

\* C14: the first call mount issues is switchtolayout, the second is
\* deleteall, every call that builds the circuit comes after these two, and
\* deleteall is not issued again.
C14_MountStartsEmpty ==
    AfterMount =>
        LET calls == MountCalls(attrs)
        IN  /\ issued >= 2
            /\ calls[1] = switchtolayout
            /\ calls[2] = deleteall
            /\ \A i \in 1..issued : calls[i][1] \in BuildCalls => i > 2
            /\ \A i \in 3..issued : calls[i][1] # "deleteall"

\* a mount of the parallel model with mixed output has issued its whole
\* script, disconnect, select and flipelement calls included
C14_Witness ==
    /\ AfterMount
    /\ attrs.model = Str("parallel")
    /\ attrs.OutputType = Str("mixed")
    /\ issued = Len(MountCalls(attrs))
    /\ \E i \in 3..issued : MountCalls(attrs)[i][1] = "disconnect"
    /\ \E i \in 3..issued : MountCalls(attrs)[i][1] = "flipelement"

\* the two sessions hold the same elements, with the same properties, and
\* the same connections
SameCircuit(s, t) ==
    /\ Names(s) = Names(t)
    /\ \A n \in Names(s) : /\ TypeOf(s, n) = TypeOf(t, n)
                            /\ PropsOf(s, n) = PropsOf(t, n)
    /\ s.root = t.root
    /\ s.conns = t.conns

\* C15: after mount, a second mount with the same attributes leaves the
\* elements, their properties and the connections that the first one left,
\* whatever the session held before the first.
C15_MountIdempotent ==
    AfterMount => SameCircuit(Run(sess, MountCalls(attrs)), sess)

\* a mount of the parallel model with disconnected output has ended: the
\* photodetector OutPIN of an earlier script is gone and the session is the
\* one a mount builds from nothing
C15_Witness ==
    /\ AfterMount
    /\ raised = ""
    /\ attrs.model = Str("parallel")
    /\ attrs.OutputType = Str("disconnected")
    /\ "OutPIN" \notin Names(sess)
    /\ "OutPIN_4" \in Names(sess)
    /\ SameCircuit(sess, FreshMount(attrs))

====
